---- MODULE Spec2Model ----
(***************************************************************************)
(* Model of the product scoring and enrichment pipeline of ProductAgent    *)
(* (src/agents/product_agent.py).                                          *)
(*                                                                         *)
(* Units.  Python floats are modelled by exact integers:                   *)
(*   prices            hundredths of a cent   (20.00 -> 200000)            *)
(*   rating            tenths of a star       (4.5   -> 45)                *)
(*   profit_margin     hundredths of a percent (45.00 -> 4500)             *)
(*   score             hundredths of a point  (87.25 -> 8725)              *)
(* Filter thresholds are kept in the unit of the field they are compared   *)
(* with.  round(x, 2) is exact except when x lies exactly half way between *)
(* two 2-decimal values; there the binary representation of the float      *)
(* decides, which the model leaves to a boolean input `up`.                *)
(***************************************************************************)
EXTENDS Integers, Sequences, FiniteSets, TLC

VARIABLES
    pc,                 \* where the call in progress stands
    num_results,        \* argument of get_product_recommendations
    filters,            \* result of parse_query_filters
    amazon_products,    \* result of _search_amazon_products
    idx,                \* position of the enrichment loop in amazon_products
    enriched_products,  \* the list built by the enrichment loop
    call_products,      \* the list as it was handed to _apply_filters
    filtered_products,  \* result of _apply_filters
    result,             \* the returned list
    log,                \* the calls get_product_recommendations made, in order
    sc_product,         \* argument of _calculate_product_score
    sc_rank_b,          \* best_seller_rank of the second product compared
    sc_score_a,         \* score of sc_product
    sc_score_b,         \* score of sc_product with best_seller_rank sc_rank_b
    en_response,        \* detail response given to _get_rainforest_product_data
    en_data,            \* its result
    se_args,            \* arguments of _search_amazon_products
    se_primary,         \* response of the catalog request
    se_secondary,       \* response of the Rainforest search request
    se_calls,           \* arguments of each _search_rainforest_products call
    se_result,          \* the list _search_amazon_products returned
    pq_query,           \* the query handed to the two parsing functions
    pq_completion,      \* outcome of the chat completion request
    pq_calls,           \* completion requests made by the function in progress
    pq_info,            \* result of _extract_search_info
    pq_filters,         \* result of parse_query_filters
    pd_first,           \* response of get_product_details' own request
    pd_second,          \* response of the request of the enrichment it calls
    pd_result,          \* what get_product_details returned
    cl_product_data,    \* argument of determine_competition_level
    cl_result,          \* the pair it returned
    product_cache,      \* LeadAgent.product_cache, keys 1..n
    la_before,          \* product_cache when the turn in progress began
    la_query,           \* the query of the last process_query turn
    la_intent,          \* what _determine_query_intent returned in it
    la_details,         \* what get_product_details returned in it
    la_calls,           \* the calls the turn made on its collaborators
    la_response         \* what the turn returned

vars == <<pc, num_results, filters, amazon_products, idx, enriched_products,
          call_products, filtered_products, result, log,
          sc_product, sc_rank_b, sc_score_a, sc_score_b, en_response, en_data,
          se_args, se_primary, se_secondary, se_calls, se_result,
          pq_query, pq_completion, pq_calls, pq_info, pq_filters,
          pd_first, pd_second, pd_result, cl_product_data, cl_result,
          product_cache, la_before, la_query, la_intent, la_details,
          la_calls, la_response>>

pipelineVars == <<num_results, filters, amazon_products, idx, enriched_products,
                  call_products, filtered_products, result, log>>
scoreVars == <<sc_product, sc_rank_b, sc_score_a, sc_score_b>>
enrichVars == <<en_response, en_data>>
searchVars == <<se_args, se_primary, se_secondary, se_calls, se_result>>
parseVars == <<pq_query, pq_completion, pq_calls, pq_info, pq_filters>>
detailVars == <<pd_first, pd_second, pd_result>>
competitionVars == <<cl_product_data, cl_result>>
leadVars == <<product_cache, la_before, la_query, la_intent, la_details,
              la_calls, la_response>>

\* the variables of a function that is not the one being called
PipelineIdle ==
    /\ num_results = 0 /\ filters = <<>> /\ amazon_products = <<>> /\ idx = 0
    /\ enriched_products = <<>> /\ call_products = <<>>
    /\ filtered_products = <<>> /\ result = <<>> /\ log = <<>>
ScoreIdle == sc_product = <<>> /\ sc_rank_b = 0 /\ sc_score_a = 0 /\ sc_score_b = 0
EnrichIdle == en_response = <<>> /\ en_data = <<>>
SearchIdle ==
    /\ se_args = <<>> /\ se_primary = <<>> /\ se_secondary = <<>>
    /\ se_calls = <<>> /\ se_result = <<>>
ParseIdle ==
    /\ pq_query = <<>> /\ pq_completion = <<>> /\ pq_calls = 0
    /\ pq_info = <<>> /\ pq_filters = <<>>
DetailIdle == pd_first = <<>> /\ pd_second = <<>> /\ pd_result = <<>>
CompetitionIdle == cl_product_data = <<>> /\ cl_result = <<>>
LeadIdle ==
    /\ product_cache = <<>> /\ la_before = <<>> /\ la_query = <<>>
    /\ la_intent = "None" /\ la_details = <<>> /\ la_calls = <<>>
    /\ la_response = <<>>

\* ---------------------------------------------------------------- bounds
MaxCand == 3          \* candidates returned by one search call
MaxResults == 1       \* largest num_results requested
MaxProducts == 4      \* longest list handed to _apply_filters on its own
MaxPrice == 3200      \* largest buybox price of the enrichment check (0.32)
MaxItems == 2         \* items in one search response
MaxOffers == 6        \* offers in one detail response
MaxRanks == 3         \* rank entries in one detail response
MaxSearchResults == 22 \* results on one search page of the ad-pressure check

\* ------------------------------------------------------- python values
\* Python's None for a numeric field (all real values are >= 0 there).
None == -1000000
\* A value of the completion service that is not a number (e.g. "50%").
NonNumeric == -2000000
\* the sentinel rank of a product without best-seller rank
UNRANKED == 999999

IsNumber(v) == v # None /\ v # NonNumeric

Min(a, b) == IF a <= b THEN a ELSE b

\* dict.get(key, default)
Get(d, key, default) == IF key \in DOMAIN d THEN d[key] ELSE default

\* {**a, **b}: the keys of both, b's value where both have the key
Merge(a, b) ==
    [k \in (DOMAIN a) \cup (DOMAIN b) |-> IF k \in DOMAIN b THEN b[k] ELSE a[k]]

\* seq[:n] for n >= 0
Take(seq, n) == SubSeq(seq, 1, Min(n, Len(seq)))

\* round(num/den) to the nearest integer unit, den > 0; at an exact tie the
\* float's binary representation decides: `up` is that outcome.
Round(num, den, up) ==
    LET fl == num \div den
        rem == num % den
    IN  IF 2 * rem < den THEN fl
        ELSE IF 2 * rem > den THEN fl + 1
        ELSE IF up THEN fl + 1 ELSE fl

\* a price given in cents
Cents(c) == c * 100

\* ------------------------------------------------ _calculate_product_score
\* the weight table of the earlier variant: margin 0.30, the others unchanged
weightsMarginThirty == [rating |-> 25, review_count |-> 15, rank |-> 20,
                        profit_margin |-> 30, ad_pressure |-> 15]

\* weights, in hundredths (0.25 -> 25)
weights == [rating |-> 25, review_count |-> 15, rank |-> 20,
            profit_margin |-> 25, ad_pressure |-> 15]

\* The five normalised terms, each a fraction of ScoreDen (1.0 -> 10000).
ScoreDen == 10000

\* rating / 5, rating in tenths of a star
RatingTerm(product) == Get(product, "rating", 0) * 200

\* min(review_count / 5000, 1)
ReviewTerm(product) == Min(Get(product, "review_count", 0) * 2, ScoreDen)

\* the rank term without the inversion
RankTermNotInverted(product) ==
    Min(Get(product, "best_seller_rank", 1000) * 100, ScoreDen)

\* rank_score = 1 - min(best_seller_rank / 100, 1)
RankTerm(product) ==
    ScoreDen - Min(Get(product, "best_seller_rank", 1000) * 100, ScoreDen)

\* min(profit_margin / 100, 1), profit_margin in hundredths of a percent
MarginTerm(product) == Min(Get(product, "profit_margin", 0), ScoreDen)

\* the ad-pressure term with High worth nothing
AdPressureTermHighZero(product) ==
    LET ad_pressure_level == Get(product, "ad_pressure_level", "Medium")
    IN  IF ad_pressure_level = "Low" THEN 10000
        ELSE IF ad_pressure_level = "Medium" THEN 5000
        ELSE 0

\* ad_pressure_score: Low 1.0, Medium 0.5, anything else 0.1
AdPressureTerm(product) ==
    LET ad_pressure_level == Get(product, "ad_pressure_level", "Medium")
    IN  IF ad_pressure_level = "Low" THEN 10000
        ELSE IF ad_pressure_level = "Medium" THEN 5000
        ELSE 1000

\* the weighted sum `score`, as a fraction of 100 * ScoreDen
WeightedSum(product) ==
    weights.rating * RatingTerm(product)
    + weights.review_count * ReviewTerm(product)
    + weights.rank * RankTerm(product)
    + weights.profit_margin * MarginTerm(product)
    + weights.ad_pressure * AdPressureTerm(product)

\* rating / 5 and review_count / 5000 raise TypeError on None
ScoreRaises(product) ==
    \/ Get(product, "rating", 0) = None
    \/ Get(product, "review_count", 0) = None

\* round(score * 100, 2), in hundredths of a point
_calculate_product_score(product, up) == Round(WeightedSum(product), 100, up)

\* ---------------------------------------------- _get_rainforest_product_data
\* {} : the empty enrichment
EmptyDict == <<>>

\* an enrichment never taken as empty
IsEmptyDictNever(d) == FALSE

IsEmptyDict(d) == DOMAIN d = {}

\* The best (lowest) rank of the entries below the sentinel.
RECURSIVE BestRank(_, _)
BestRank(bestseller_ranks, best_seller_rank) ==
    IF bestseller_ranks = <<>> THEN best_seller_rank
    ELSE BestRank(Tail(bestseller_ranks),
                  IF Head(bestseller_ranks) < best_seller_rank
                  THEN Head(bestseller_ranks) ELSE best_seller_rank)

\* `rank < best_seller_rank` raises TypeError on a rank that is None
RankRaises(bestseller_ranks) ==
    \E i \in 1..Len(bestseller_ranks) : bestseller_ranks[i] = None

\* ad_pressure_score: one point for a sponsored listing, one for more than
\* five related sponsored products
AdPressureScore(response) ==
    (IF response.sponsored THEN 1 ELSE 0)
    + (IF response.sponsored_products > 5 THEN 1 ELSE 0)

\* the level before the signals are applied: the detail record's own
\* ad_pressure_level when it has one, else by the count of sponsored products
BaseAdPressureLevel(response) ==
    IF response.ad_pressure_level # "None" THEN response.ad_pressure_level
    ELSE IF response.sponsored_products = 0 THEN "Low"
    ELSE IF response.sponsored_products <= 5 THEN "Medium"
    ELSE "High"

AdPressureLevel(response) ==
    LET ad_pressure_score == AdPressureScore(response)
        ad_pressure_level == BaseAdPressureLevel(response)
    IN  IF ad_pressure_score >= 2 THEN "High"
        ELSE IF ad_pressure_score = 1 /\ ad_pressure_level # "High"
        THEN (IF ad_pressure_level = "Low" THEN "Medium"
              ELSE IF ad_pressure_level = "Medium" THEN "High"
              ELSE ad_pressure_level)
        ELSE ad_pressure_level

\* the share of the retail price taken as wholesale price, in hundredths
WholesaleRatio == 55

\* wholesale_price = round(retail_price * 0.55, 2): a whole number of cents
WholesalePrice(retail_price, up) ==
    Cents(Round(retail_price * WholesaleRatio, 100 * Cents(1), up))

\* profit_margin, rounded to 2 decimals, in hundredths of a percent
ProfitMargin(retail_price, wholesale_price, up) ==
    IF retail_price > 0 /\ wholesale_price > 0
    THEN Round((retail_price - wholesale_price) * 10000, retail_price, up)
    ELSE 0

\* ------------------------------------------------ determine_competition_level
Range(seq) == { seq[i] : i \in DOMAIN seq }

\* The offers of a detail response are the sequence of their merchant names.
\* marketplace_sellers: the distinct names, in the order of first appearance
RECURSIVE MarketplaceSellers(_, _)
MarketplaceSellers(offers, marketplace_sellers) ==
    IF offers = <<>> THEN marketplace_sellers
    ELSE MarketplaceSellers(Tail(offers),
            IF Head(offers) \in Range(marketplace_sellers)
            THEN marketplace_sellers
            ELSE Append(marketplace_sellers, Head(offers)))

\* seller_count of determine_competition_level: the offers, else the seller
\* names, else the buybox winner (two when Amazon fulfils), else 0
CompetitionSellerCount(product_data) ==
    IF Len(product_data.offers) > 0 THEN Len(product_data.offers)
    ELSE IF Len(product_data.marketplace_sellers) > 0
    THEN Len(product_data.marketplace_sellers)
    ELSE IF product_data.buybox_winner.present
    THEN 1 + (IF product_data.buybox_winner.fulfilled_by = "Amazon" THEN 1 ELSE 0)
    ELSE 0

\* the review branch with 500 reviews still counted as Low
ReviewCompetitionInclusive(review_count) ==
    IF review_count = 0
    THEN <<"Unknown", [text |-> "No review or seller data available",
                       seller_count |-> 0, review_count |-> 0]>>
    ELSE IF review_count <= 500
    THEN <<"Low", [text |-> "Only {review_count} reviews, likely new market",
                   seller_count |-> 0, review_count |-> review_count]>>
    ELSE IF review_count < 1000
    THEN <<"Medium", [text |-> "{review_count} reviews indicate established competition",
                      seller_count |-> 0, review_count |-> review_count]>>
    ELSE <<"High", [text |-> "High review count ({review_count}) indicates mature market",
                    seller_count |-> 0, review_count |-> review_count]>>

\* competition_details is the message template with the numbers it is
\* formatted with (review_count 0: no review suffix)
ReviewCompetition(review_count) ==
    IF review_count = 0
    THEN <<"Unknown", [text |-> "No review or seller data available",
                       seller_count |-> 0, review_count |-> 0]>>
    ELSE IF review_count < 500
    THEN <<"Low", [text |-> "Only {review_count} reviews, likely new market",
                   seller_count |-> 0, review_count |-> review_count]>>
    ELSE IF review_count < 1000
    THEN <<"Medium", [text |-> "{review_count} reviews indicate established competition",
                      seller_count |-> 0, review_count |-> review_count]>>
    ELSE <<"High", [text |-> "High review count ({review_count}) indicates mature market",
                    seller_count |-> 0, review_count |-> review_count]>>

SellerCompetition(seller_count, review_count) ==
    IF seller_count <= 2
    THEN <<"Low", [text |-> "Only {seller_count} sellers in the market",
                   seller_count |-> seller_count, review_count |-> review_count]>>
    ELSE IF seller_count <= 5
    THEN <<"Medium", [text |-> "{seller_count} sellers competing in this market",
                      seller_count |-> seller_count, review_count |-> review_count]>>
    ELSE <<"High", [text |-> "Crowded market with {seller_count} active sellers",
                    seller_count |-> seller_count, review_count |-> review_count]>>

\* A review_count of None raises TypeError in either branch (None < 500,
\* None > 0); the except clause answers for it.
determine_competition_level(product_data) ==
    IF product_data.review_count = None
    THEN <<"Unknown", [text |-> "Error analyzing competition data",
                       seller_count |-> 0, review_count |-> 0]>>
    ELSE IF CompetitionSellerCount(product_data) = 0
    THEN ReviewCompetition(product_data.review_count)
    ELSE SellerCompetition(CompetitionSellerCount(product_data),
                           product_data.review_count)

\* the dictionary _get_rainforest_product_data hands to it
CompetitionData(response) ==
    [review_count |-> response.ratings_total,
     offers |-> response.offers,
     marketplace_sellers |-> MarketplaceSellers(response.offers, <<>>),
     buybox_winner |-> [present |-> response.buybox_winner,
                        fulfilled_by |-> response.buybox_fulfilled_by]]

\* brand of a detail response, a [shape, name] record: "dict" is an object
\* whose name is taken, "str" the bare string, "absent" reads as ''
DetailBrand(brand) ==
    IF brand.shape \in {"dict", "str"} THEN brand.name ELSE ""

\* The enrichment of one detail response; {} on an exception or a status
\* other than 200.  upW, upM: the float outcome of the two roundings.
\* Of the returned dictionary amazon_link and ad_pressure_details are not
\* represented.  A response without buybox_winner (buybox_winner
\* FALSE) has buybox_price 0.
_get_rainforest_product_data(response, upW, upM) ==
    IF response.raises \/ response.status_code # 200 THEN EmptyDict
    ELSE IF RankRaises(response.bestsellers_rank) THEN EmptyDict
    ELSE LET retail_price == response.buybox_price
             wholesale_price == WholesalePrice(retail_price, upW)
         IN  [brand |-> DetailBrand(response.brand),
              wholesale_price |-> wholesale_price,
              rating |-> response.rating,
              review_count |-> response.ratings_total,
              best_seller_rank |-> BestRank(response.bestsellers_rank, UNRANKED),
              category_ranks |-> response.bestsellers_rank,
              profit_margin |-> ProfitMargin(retail_price, wholesale_price, upM),
              marketplace_sellers |-> MarketplaceSellers(response.offers, <<>>),
              seller_count |-> Len(MarketplaceSellers(response.offers, <<>>)),
              competition_level |->
                  determine_competition_level(CompetitionData(response))[1],
              competition_details |->
                  determine_competition_level(CompetitionData(response))[2],
              is_sponsored |-> response.sponsored,
              sponsored_count |-> response.sponsored_products,
              ad_pressure_level |-> AdPressureLevel(response),
              ad_pressure_score |-> AdPressureScore(response)]

\* ------------------------------------------------------------ _apply_filters
\* list.sort(key=score, reverse=True): stable, descending by x.get('score', 0)
ScoreOf(product) == Get(product, "score", 0)

\* the insertion of an ascending sort
InsertByScoreAscending(sorted, product) ==
    LET k == Cardinality({i \in 1..Len(sorted) :
                            ScoreOf(sorted[i]) <= ScoreOf(product)})
    IN  SubSeq(sorted, 1, k) \o <<product>> \o SubSeq(sorted, k + 1, Len(sorted))

InsertByScore(sorted, product) ==
    LET k == Cardinality({i \in 1..Len(sorted) :
                            ScoreOf(sorted[i]) >= ScoreOf(product)})
    IN  SubSeq(sorted, 1, k) \o <<product>> \o SubSeq(sorted, k + 1, Len(sorted))

RECURSIVE SortByScoreDesc(_)
SortByScoreDesc(products) ==
    IF products = <<>> THEN <<>>
    ELSE InsertByScore(SortByScoreDesc(SubSeq(products, 1, Len(products) - 1)),
                       products[Len(products)])

\* the four checks with the price limit itself excluded
IncludeProductPriceStrict(product, criteria) ==
    /\ ~(criteria.min_margin # None
         /\ Get(product, "profit_margin", 0) < criteria.min_margin)
    /\ ~(criteria.max_price # None
         /\ ("price" \notin DOMAIN product \/ product.price >= criteria.max_price))
    /\ ~(criteria.min_rating # None
         /\ Get(product, "rating", 0) < criteria.min_rating)
    /\ ~(criteria.max_reviews # None
         /\ ("review_count" \notin DOMAIN product
             \/ product.review_count > criteria.max_reviews))

\* include_product after the four checks; a null filter excludes nothing
IncludeProduct(product, criteria) ==
    /\ ~(criteria.min_margin # None
         /\ Get(product, "profit_margin", 0) < criteria.min_margin)
    /\ ~(criteria.max_price # None
         /\ ("price" \notin DOMAIN product \/ product.price > criteria.max_price))
    /\ ~(criteria.min_rating # None
         /\ Get(product, "rating", 0) < criteria.min_rating)
    /\ ~(criteria.max_reviews # None
         /\ ("review_count" \notin DOMAIN product
             \/ product.review_count > criteria.max_reviews))

\* a comparison of a number with a value that is no number raises TypeError
FilterCheckRaises(field, limit) == limit # None /\ (~IsNumber(limit) \/ ~IsNumber(field))

ApplyFiltersRaises(products, criteria) ==
    \E i \in 1..Len(products) :
        \/ FilterCheckRaises(Get(products[i], "profit_margin", 0), criteria.min_margin)
        \/ FilterCheckRaises(Get(products[i], "price", 0), criteria.max_price)
        \/ FilterCheckRaises(Get(products[i], "rating", 0), criteria.min_rating)
        \/ FilterCheckRaises(Get(products[i], "review_count", 0), criteria.max_reviews)

Filtered(products, criteria) ==
    SelectSeq(products, LAMBDA product : IncludeProduct(product, criteria))

\* a fallback of five products
FallbackCountFive(products) == Min(5, Len(products))

\* how many of the original products are returned when none passes
FallbackCount(products) == Min(3, Len(products))

\* _apply_filters without its fallback
ApplyFiltersNoFallback(products, criteria) == Filtered(products, criteria)

\* the returned list
_apply_filters(products, criteria) ==
    IF products = <<>> THEN <<>>
    ELSE IF Filtered(products, criteria) = <<>>
    THEN Take(SortByScoreDesc(products), FallbackCount(products))
    ELSE Filtered(products, criteria)

\* the list `products` after the call: sorted in place on the fallback path
ProductsAfterFilters(products, criteria) ==
    IF products # <<>> /\ Filtered(products, criteria) = <<>>
    THEN SortByScoreDesc(products)
    ELSE products

\* ============================================================ inputs
\* filters with every field null
NoFilters == [min_margin |-> None, max_price |-> None, min_rating |-> None,
              max_reviews |-> None, category |-> "None"]

\* what parse_query_filters can hand back: nothing, one numeric threshold, or
\* a threshold the completion service gave as text
ParsedFilters ==
    { NoFilters,
      [NoFilters EXCEPT !.min_margin = 5000],
      [NoFilters EXCEPT !.max_price = Cents(1000)],
      [NoFilters EXCEPT !.min_rating = 45],
      [NoFilters EXCEPT !.min_margin = NonNumeric] }

\* candidates a search call can return: one without identifier, one from the
\* catalog API, one from the fallback API (tagged with its ad pressure);
\* asin and the listed price stand for the product dictionary
SearchCandidates ==
    { [asin |-> "", title |-> "Whisk", brand |-> "", price |-> Cents(1500),
       category |-> "KITCHEN", image_url |-> "whisk.jpg"],
      [asin |-> "B001", title |-> "Garlic Press", brand |-> "Bolt",
       price |-> Cents(2000), category |-> "KITCHEN", image_url |-> "press.jpg"],
      [asin |-> "B002", title |-> "Peeler", brand |-> "", price |-> Cents(500),
       category |-> "", image_url |-> "", is_sponsored |-> TRUE,
       ad_pressure_level |-> "High", sponsored_ratio |-> <<1, 1>>] }

SearchResults == UNION { [1..n -> SearchCandidates] : n \in 0..MaxCand }

\* a successful detail response
DetailOk == [raises |-> FALSE, status_code |-> 200, rating |-> 45,
             ratings_total |-> 6000, buybox_price |-> Cents(2000),
             bestsellers_rank |-> <<30, 500>>, sponsored |-> FALSE,
             sponsored_products |-> 0, ad_pressure_level |-> "None",
             offers |-> <<"Acme", "Bolt", "Acme">>, buybox_winner |-> TRUE,
             buybox_fulfilled_by |-> "Amazon",
             brand |-> [shape |-> "dict", name |-> "Acme"]]

\* the detail responses of the pipeline check: a failure, a full record, a
\* record whose score lies half way between two values, a null rating
DetailResponses ==
    { [DetailOk EXCEPT !.status_code = 500],
      DetailOk,
      [DetailOk EXCEPT !.rating = 0, !.ratings_total = 5, !.buybox_price = Cents(1000),
                       !.bestsellers_rank = <<700>>, !.sponsored_products = 3],
      [DetailOk EXCEPT !.rating = None] }

\* =================================================== get_product_recommendations
Init ==
    /\ SearchIdle /\ ParseIdle /\ DetailIdle /\ CompetitionIdle /\ LeadIdle
    /\ pc = "start"
    /\ num_results \in 0..MaxResults
    /\ filters = NoFilters
    /\ amazon_products = <<>>
    /\ idx = 0
    /\ enriched_products = <<>>
    /\ call_products = <<>>
    /\ filtered_products = <<>>
    /\ result = <<>>
    /\ log = <<>>
    /\ sc_product = <<>> /\ sc_rank_b = 0 /\ sc_score_a = 0 /\ sc_score_b = 0
    /\ en_response = <<>> /\ en_data = <<>>

\* one call in the log: the function called and, for the calls of the
\* enrichment loop, the position of the candidate in amazon_products
Call(op, i) == [op |-> op, i |-> i]

\* the two calls of one loop turn in the wrong order
EnrichCallsScoreFirst(i, enriched) ==
    IF enriched
    THEN <<Call("_calculate_product_score", i), Call("_get_rainforest_product_data", i)>>
    ELSE <<Call("_get_rainforest_product_data", i)>>

\* the calls of one loop turn for a candidate with an asin: the enrichment,
\* and the scoring when the enrichment is not empty
EnrichCalls(i, enriched) ==
    IF enriched
    THEN <<Call("_get_rainforest_product_data", i), Call("_calculate_product_score", i)>>
    ELSE <<Call("_get_rainforest_product_data", i)>>

\* the merge with the price taken from the detail record
CombinedProductDetailPrice(product, enriched_data) ==
    Merge(Merge(product, enriched_data), [price |-> enriched_data.wholesale_price])

\* combined_product = {**product, **enriched_data}
CombinedProduct(product, enriched_data) == Merge(product, enriched_data)

\* every search result taken into the loop, the empty one too
AfterSearchAlwaysEnrich(products) == "enrich"

\* `if not amazon_products: return []`
AfterSearch(products) == IF products = <<>> THEN "done" ELSE "enrich"

\* Steps 1 and 1.5: the query is parsed into filters
ParseQuery ==
    /\ pc = "start"
    /\ \E f \in ParsedFilters : filters' = f
    /\ log' = <<Call("_extract_search_info", 0), Call("parse_query_filters", 0)>>
    /\ pc' = "search"
    /\ UNCHANGED <<num_results, amazon_products, idx, enriched_products,
                   call_products, filtered_products, result>>
    /\ UNCHANGED <<scoreVars, enrichVars,
                   searchVars, parseVars, detailVars, competitionVars, leadVars>>

\* Step 2: the search; no candidates at all returns [] at once
SearchProducts ==
    /\ pc = "search"
    /\ \E products \in SearchResults :
        /\ amazon_products' = products
        /\ pc' = AfterSearch(products)
    /\ log' = Append(log, Call("_search_amazon_products", 0))
    /\ idx' = 1
    /\ result' = <<>>
    /\ UNCHANGED <<num_results, filters, enriched_products, call_products,
                   filtered_products>>
    /\ UNCHANGED <<scoreVars, enrichVars,
                   searchVars, parseVars, detailVars, competitionVars, leadVars>>

\* lines 88-94 for one candidate with an asin: whether the enrichment came
\* back non-empty, whether the scoring raised, and the product appended
LoopTurn(product, response, upW, upM, upS) ==
    LET enriched_data == _get_rainforest_product_data(response, upW, upM)
        combined_product ==
            IF IsEmptyDict(enriched_data) THEN product
            ELSE CombinedProduct(product, enriched_data)
    IN  IF IsEmptyDict(enriched_data)
        THEN [enriched |-> FALSE, raises |-> FALSE, appended |-> <<>>]
        ELSE IF ScoreRaises(combined_product)
        THEN [enriched |-> TRUE, raises |-> TRUE, appended |-> <<>>]
        ELSE [enriched |-> TRUE, raises |-> FALSE,
              appended |-> <<Merge(combined_product,
                                   [score |-> _calculate_product_score(
                                                 combined_product, upS)])>>]

\* the loop turns a candidate can take, over every detail response
LoopTurns ==
    [product \in SearchCandidates |->
        { LoopTurn(product, response, upW, upM, upS) :
            response \in DetailResponses, upW \in BOOLEAN,
            upM \in BOOLEAN, upS \in BOOLEAN }]

\* Step 3, one turn of the loop: the candidate is enriched, merged and scored
EnrichProduct ==
    /\ pc = "enrich"
    /\ idx <= Len(amazon_products)
    /\ LET product == amazon_products[idx]
           next_pc == IF idx = Len(amazon_products) THEN "filter" ELSE "enrich"
       IN  IF product.asin = ""
           THEN /\ pc' = next_pc
                /\ UNCHANGED <<enriched_products, log>>
           ELSE \E turn \in LoopTurns[product] :
                  /\ pc' = IF turn.raises THEN "raised" ELSE next_pc
                  /\ log' = log \o EnrichCalls(idx, turn.enriched)
                  /\ enriched_products' = enriched_products \o turn.appended
    /\ idx' = idx + 1
    /\ UNCHANGED <<num_results, filters, amazon_products, call_products,
                   filtered_products, result>>
    /\ UNCHANGED <<scoreVars, enrichVars,
                   searchVars, parseVars, detailVars, competitionVars, leadVars>>

\* Step 4: _apply_filters(enriched_products, filters)
ApplyFilters ==
    /\ pc = "filter"
    /\ call_products' = enriched_products
    /\ log' = Append(log, Call("_apply_filters", 0))
    /\ IF ApplyFiltersRaises(enriched_products, filters)
       THEN /\ pc' = "raised"
            /\ UNCHANGED <<enriched_products, filtered_products>>
       ELSE /\ pc' = "sort"
            /\ filtered_products' = _apply_filters(enriched_products, filters)
            /\ enriched_products' = ProductsAfterFilters(enriched_products, filters)
    /\ UNCHANGED <<num_results, filters, amazon_products, idx, result>>
    /\ UNCHANGED <<scoreVars, enrichVars,
                   searchVars, parseVars, detailVars, competitionVars, leadVars>>

\* Step 5: sort by score, descending, and return the first num_results
SortAndReturn ==
    /\ pc = "sort"
    /\ filtered_products' = SortByScoreDesc(filtered_products)
    /\ result' = Take(SortByScoreDesc(filtered_products), num_results)
    /\ pc' = "done"
    /\ UNCHANGED <<num_results, filters, amazon_products, idx, enriched_products,
                   call_products, log>>
    /\ UNCHANGED <<scoreVars, enrichVars,
                   searchVars, parseVars, detailVars, competitionVars, leadVars>>

Next ==
    \/ ParseQuery
    \/ SearchProducts
    \/ EnrichProduct
    \/ ApplyFilters
    \/ SortAndReturn

Spec == Init /\ [][Next]_vars

\* ===================================================== _apply_filters alone
\* scored products handed to _apply_filters: one over every threshold of
\* FilterSpace, one exactly on each, one under the margin, one just off each
FilterSamples ==
    { [asin |-> "A", score |-> 8000, profit_margin |-> 4500, price |-> Cents(2000),
       rating |-> 45, review_count |-> 6000],
      [asin |-> "B", score |-> 6000, profit_margin |-> 4000, price |-> Cents(1000),
       rating |-> 40, review_count |-> 500],
      [asin |-> "C", score |-> 6000, profit_margin |-> 0, price |-> 0,
       rating |-> 48, review_count |-> 400],
      [asin |-> "D", score |-> 9000, profit_margin |-> 3999, price |-> Cents(1000) + 1,
       rating |-> 39, review_count |-> 501] }

ProductLists == UNION { [1..n -> FilterSamples] : n \in 0..MaxProducts }

FilterSpace ==
    [min_margin : {None, 4000}, max_price : {None, Cents(1000)},
     min_rating : {None, 40}, max_reviews : {None, 500}, category : {"None"}]

InitFilter ==
    /\ SearchIdle /\ ParseIdle /\ DetailIdle /\ CompetitionIdle /\ LeadIdle
    /\ pc = "filter"
    /\ num_results = MaxResults
    /\ filters \in FilterSpace
    /\ amazon_products = <<>>
    /\ idx = 0
    /\ enriched_products \in ProductLists
    /\ call_products = <<>>
    /\ filtered_products = <<>>
    /\ result = <<>>
    /\ log = <<>>
    /\ sc_product = <<>> /\ sc_rank_b = 0 /\ sc_score_a = 0 /\ sc_score_b = 0
    /\ en_response = <<>> /\ en_data = <<>>

NextFilter == ApplyFilters \/ SortAndReturn

SpecFilter == InitFilter /\ [][NextFilter]_vars

\* ============================================== _calculate_product_score alone
RatingSamples == {0, 25, 45, 50}
ReviewSamples == {0, 5, 15, 2500, 5000, 6000}
RankSamples == {1, 30, 50, 99, 100, 500, UNRANKED}
MarginSamples == {0, 2, 3333, 4500, 6000, 10000}
AdPressureLevels == {"Low", "Medium", "High"}

ScoreInputs ==
    [rating : RatingSamples, review_count : ReviewSamples,
     best_seller_rank : RankSamples, profit_margin : MarginSamples,
     ad_pressure_level : AdPressureLevels]

InitScore ==
    /\ SearchIdle /\ ParseIdle /\ DetailIdle /\ CompetitionIdle /\ LeadIdle
    /\ pc = "score"
    /\ sc_product \in ScoreInputs
    /\ sc_rank_b \in RankSamples
    /\ sc_score_a = 0 /\ sc_score_b = 0
    /\ num_results = 0 /\ filters = NoFilters /\ amazon_products = <<>>
    /\ idx = 0 /\ enriched_products = <<>> /\ call_products = <<>>
    /\ filtered_products = <<>> /\ result = <<>> /\ log = <<>>
    /\ en_response = <<>> /\ en_data = <<>>

\* sc_product with the other rank
ProductB == [sc_product EXCEPT !.best_seller_rank = sc_rank_b]

\* The product and its twin of another rank are both scored.  Two calls whose
\* terms are all equal are the same float computation and round the same way.
ScoreProducts ==
    /\ pc = "score"
    /\ \E upA \in BOOLEAN, upB \in BOOLEAN :
        /\ RankTerm(sc_product) = RankTerm(ProductB) => upA = upB
        /\ sc_score_a' = _calculate_product_score(sc_product, upA)
        /\ sc_score_b' = _calculate_product_score(ProductB, upB)
    /\ pc' = "scored"
    /\ UNCHANGED <<sc_product, sc_rank_b>>
    /\ UNCHANGED <<pipelineVars, enrichVars,
                   searchVars, parseVars, detailVars, competitionVars, leadVars>>

NextScore == ScoreProducts

SpecScore == InitScore /\ [][NextScore]_vars

\* ========================================== _get_rainforest_product_data alone
EnrichResponses ==
    { [DetailOk EXCEPT !.status_code = st, !.buybox_price = price] :
        st \in {200, 500}, price \in (0 - MaxPrice)..MaxPrice }

InitEnrich ==
    /\ SearchIdle /\ ParseIdle /\ DetailIdle /\ CompetitionIdle /\ LeadIdle
    /\ pc = "fetch"
    /\ en_response \in EnrichResponses
    /\ en_data = <<>>
    /\ num_results = 0 /\ filters = NoFilters /\ amazon_products = <<>>
    /\ idx = 0 /\ enriched_products = <<>> /\ call_products = <<>>
    /\ filtered_products = <<>> /\ result = <<>> /\ log = <<>>
    /\ sc_product = <<>> /\ sc_rank_b = 0 /\ sc_score_a = 0 /\ sc_score_b = 0

EnrichCall ==
    /\ pc = "fetch"
    /\ \E upW \in BOOLEAN, upM \in BOOLEAN :
        en_data' = _get_rainforest_product_data(en_response, upW, upM)
    /\ pc' = "fetched"
    /\ UNCHANGED en_response
    /\ UNCHANGED <<pipelineVars, scoreVars,
                   searchVars, parseVars, detailVars, competitionVars, leadVars>>

NextEnrich == EnrichCall

SpecEnrich == InitEnrich /\ [][NextEnrich]_vars

\* ==================================================== _search_amazon_products
\* a key that the response does not carry
Missing == -3000000

\* One item of the catalog response, by the fields the loop reads: asin, the
\* name of productTypes[0] ("" without product types) and the value of the
\* ListPrice attribute (Missing: no such attribute, None: a null value,
\* NonNumeric: a string float() cannot parse).  title, brand and image_url
\* are copied to the product unchanged and are not represented.
\* float(None) raises TypeError, which `except ValueError` lets through
ItemRaises(item) == item.ListPrice = None

ListPrice(item) ==
    IF item.ListPrice \in {Missing, NonNumeric} THEN 0 ELSE item.ListPrice

AmazonProduct(item) ==
    [asin |-> item.asin, price |-> ListPrice(item), category |-> item.productType]

ItemsRaise(items) == \E i \in DOMAIN items : ItemRaises(items[i])

\* the item at which the loop over the items stops with an exception
FirstRaising(items) ==
    CHOOSE i \in DOMAIN items :
        ItemRaises(items[i]) /\ \A j \in 1..(i - 1) : ~ItemRaises(items[j])

\* a 200 response without items counted as a failure as well
PrimaryFallsBackOnEmpty(response) ==
    \/ response.raises
    \/ response.status_code # 200
    \/ ItemsRaise(response.items)
    \/ response.items = <<>>

\* the two ways into _search_rainforest_products: the else branch of the
\* status test and the except clause around the whole body
PrimaryFallsBack(response) ==
    \/ response.raises
    \/ response.status_code # 200
    \/ ItemsRaise(response.items)

\* The local `category` when the fallback call is made.  The loop assigns the
\* item's product type to the parameter itself, before it reads the price.
CategoryAtFallback(category, response) ==
    IF ~response.raises /\ response.status_code = 200 /\ ItemsRaise(response.items)
    THEN response.items[FirstRaising(response.items)].productType
    ELSE category

\* --------------------------------------------- _search_rainforest_products
\* the number of leading results the sponsored ratio is taken over
AnalyzedResults == 20

SponsoredCount(results) ==
    Cardinality({i \in DOMAIN results : results[i].sponsored})

\* the ratio taken over the whole page
SponsoredRatioAll(search_results) ==
    IF Len(search_results) > 0
    THEN <<SponsoredCount(search_results), Len(search_results)>>
    ELSE <<0, 1>>

\* sponsored_ratio as the pair <<sponsored_count, total_count>>; 0 is <<0, 1>>
SponsoredRatio(search_results) ==
    LET results_to_analyze == Take(search_results, AnalyzedResults)
    IN  IF Len(results_to_analyze) > 0
        THEN <<SponsoredCount(results_to_analyze), Len(results_to_analyze)>>
        ELSE <<0, 1>>

\* ratio < 0.2 Low, ratio <= 0.5 Medium, else High
SearchAdPressureLevel(sponsored_ratio) ==
    IF 5 * sponsored_ratio[1] < sponsored_ratio[2] THEN "Low"
    ELSE IF 2 * sponsored_ratio[1] <= sponsored_ratio[2] THEN "Medium"
    ELSE "High"

\* brand and price of a search result are [shape, ...] records: shape "dict"
\* (an object), "str" / "scalar" (a bare value) or "absent" (no such key,
\* read as {}).  A dict without the inner key has name "" / value Missing.
BrandName(brand_info) ==
    IF brand_info.shape \in {"dict", "str"} THEN brand_info.name ELSE ""

\* float(price_info.get('value', 0)) raises TypeError on a null value
PriceRaises(price_info) ==
    price_info.shape \in {"dict", "absent"} /\ price_info.value = None

\* a price taken from the bare value as well
PriceValueEitherShape(price_info) ==
    IF price_info.value = Missing THEN 0 ELSE price_info.value

PriceValue(price_info) ==
    IF price_info.shape \in {"dict", "absent"}
    THEN (IF price_info.value = Missing THEN 0 ELSE price_info.value)
    ELSE 0

RainforestProduct(item, ad_pressure_level, sponsored_ratio) ==
    [asin |-> item.asin,
     brand |-> BrandName(item.brand),
     price |-> PriceValue(item.price),
     is_sponsored |-> item.sponsored,
     ad_pressure_level |-> ad_pressure_level,
     sponsored_ratio |-> sponsored_ratio]

\* [] on an exception or a status other than 200, else the first `limit`
\* products.  search_terms and category only shape the request.
_search_rainforest_products(search_terms, category, limit, response) ==
    IF response.raises \/ response.status_code # 200 THEN <<>>
    ELSE IF \E i \in DOMAIN response.search_results :
                PriceRaises(response.search_results[i].price) THEN <<>>
    ELSE LET sponsored_ratio == SponsoredRatio(response.search_results)
             ad_pressure_level == SearchAdPressureLevel(sponsored_ratio)
             products == [i \in DOMAIN response.search_results |->
                            RainforestProduct(response.search_results[i],
                                              ad_pressure_level, sponsored_ratio)]
         IN  Take(products, limit)

\* the calls of _search_rainforest_products one call of
\* _search_amazon_products makes, by their arguments
RainforestCalls(search_terms, category, limit, response) ==
    IF PrimaryFallsBack(response)
    THEN << [search_terms |-> search_terms,
             category |-> CategoryAtFallback(category, response),
             limit |-> limit] >>
    ELSE <<>>

_search_amazon_products(search_terms, category, limit, response, rainforest) ==
    IF PrimaryFallsBack(response)
    THEN _search_rainforest_products(search_terms,
                                     CategoryAtFallback(category, response),
                                     limit, rainforest)
    ELSE [i \in DOMAIN response.items |-> AmazonProduct(response.items[i])]

\* ------------------------------------------------------- the search alone
CatalogItems ==
    { [asin |-> "B001", productType |-> "KITCHEN", ListPrice |-> Cents(2000)],
      [asin |-> "B003", productType |-> "", ListPrice |-> None],
      [asin |-> "B004", productType |-> "TOOLS", ListPrice |-> NonNumeric],
      [asin |-> "B005", productType |-> "TOOLS", ListPrice |-> Missing],
      [asin |-> "B006", productType |-> "TOOLS", ListPrice |-> None] }

CatalogResponses ==
    { [raises |-> TRUE, status_code |-> 0, items |-> <<>>],
      [raises |-> FALSE, status_code |-> 403, items |-> <<>>] }
    \cup { [raises |-> FALSE, status_code |-> 200, items |-> items] :
             items \in UNION { [1..n -> CatalogItems] : n \in 0..MaxItems } }

SearchItems ==
    { [asin |-> "B002", sponsored |-> FALSE,
       brand |-> [shape |-> "dict", name |-> "Acme"],
       price |-> [shape |-> "dict", value |-> Cents(1500)]],
      [asin |-> "B007", sponsored |-> TRUE,
       brand |-> [shape |-> "str", name |-> "Bolt"],
       price |-> [shape |-> "scalar", value |-> Cents(1200)]],
      [asin |-> "B008", sponsored |-> FALSE,
       brand |-> [shape |-> "absent", name |-> ""],
       price |-> [shape |-> "dict", value |-> None]],
      [asin |-> "B009", sponsored |-> TRUE,
       brand |-> [shape |-> "dict", name |-> ""],
       price |-> [shape |-> "absent", value |-> Missing]] }

RainforestResponses ==
    { [raises |-> TRUE, status_code |-> 0, search_results |-> <<>>],
      [raises |-> FALSE, status_code |-> 500, search_results |-> <<>>] }
    \cup { [raises |-> FALSE, status_code |-> 200, search_results |-> items] :
             items \in UNION { [1..n -> SearchItems] : n \in 0..MaxItems } }

SearchArgs ==
    [search_terms : {"garlic press"}, category : {"None", "Kitchen"},
     limit : {1, 5}]

InitSearch ==
    /\ pc = "search_call"
    /\ se_args \in SearchArgs
    /\ se_primary \in CatalogResponses
    /\ se_secondary \in RainforestResponses
    /\ se_calls = <<>>
    /\ se_result = <<>>
    /\ PipelineIdle /\ ScoreIdle /\ EnrichIdle
    /\ ParseIdle /\ DetailIdle /\ CompetitionIdle /\ LeadIdle

\* one call of _search_amazon_products, the fallback call included
SearchAmazon ==
    /\ pc = "search_call"
    /\ se_calls' = RainforestCalls(se_args.search_terms, se_args.category,
                                   se_args.limit, se_primary)
    /\ se_result' = _search_amazon_products(se_args.search_terms, se_args.category,
                                            se_args.limit, se_primary, se_secondary)
    /\ pc' = "searched"
    /\ UNCHANGED <<se_args, se_primary, se_secondary>>
    /\ UNCHANGED <<pipelineVars, scoreVars, enrichVars,
                   parseVars, detailVars, competitionVars, leadVars>>

NextSearch == SearchAmazon

SpecSearch == InitSearch /\ [][NextSearch]_vars

\* ========================================= _extract_search_info, parse_query_filters
\* A query is the sequence of its lower-cased, whitespace-separated tokens:
\* a word, "<n>%" (pct), "$<n>" (usd) or a bare number (num).
Word(text) == [kind |-> "word", text |-> text, n |-> 0]
Pct(n) == [kind |-> "pct", text |-> "", n |-> n]
Usd(n) == [kind |-> "usd", text |-> "", n |-> n]
Num(n) == [kind |-> "num", text |-> "", n |-> n]

HasWord(query, text) == \E i \in DOMAIN query : query[i] = Word(text)

IsAt(query, i, kinds) == i \in DOMAIN query /\ query[i].kind \in kinds

\* re.search(r'(\d+)%\s+margin|margin\s+of\s+(\d+)%'): the positions where
\* either alternative matches, and the number of the leftmost match
MarginMatches(query) ==
    { i \in DOMAIN query :
        \/ query[i].kind = "pct" /\ i + 1 \in DOMAIN query
           /\ query[i + 1] = Word("margin")
        \/ query[i] = Word("margin") /\ i + 2 \in DOMAIN query
           /\ query[i + 1] = Word("of") /\ query[i + 2].kind = "pct" }

Leftmost(positions) == CHOOSE i \in positions : \A j \in positions : i <= j

MarginVal(query) ==
    LET i == Leftmost(MarginMatches(query))
    IN  IF query[i].kind = "pct" THEN query[i].n ELSE query[i + 2].n

\* re.search(r'under\s+\$?(\d+)|less than\s+\$?(\d+)')
PriceMatches(query) ==
    { i \in DOMAIN query :
        \/ query[i] = Word("under") /\ IsAt(query, i + 1, {"usd", "num"})
        \/ query[i] = Word("less") /\ i + 1 \in DOMAIN query
           /\ query[i + 1] = Word("than") /\ IsAt(query, i + 2, {"usd", "num"}) }

PriceVal(query) ==
    LET i == Leftmost(PriceMatches(query))
    IN  IF query[i] = Word("under") THEN query[i + 1].n ELSE query[i + 2].n

\* "less than" in query.lower()
HasLessThan(query) ==
    \E i \in DOMAIN query :
        query[i] = Word("less") /\ i + 1 \in DOMAIN query
        /\ query[i + 1] = Word("than")

\* The outcome of one chat completion request: the call raises, its content
\* is not JSON ("malformed"), or it is the JSON object `content`.
CompletionFailed(completion) == completion.outcome # "ok"

\* the failure result with the search terms dropped
ExtractSearchInfoNoTerms(query, completion) ==
    IF CompletionFailed(completion)
    THEN [search_terms |-> <<>>, category |-> "None"]
    ELSE [search_terms |-> Get(completion.content, "search_terms", query),
          category |-> Get(completion.content, "category", "None")]

_extract_search_info(query, completion) ==
    IF CompletionFailed(completion)
    THEN [search_terms |-> query, category |-> "None"]
    ELSE [search_terms |-> Get(completion.content, "search_terms", query),
          category |-> Get(completion.content, "category", "None")]

\* for key, value in extracted_filters.items(): if value is not None: ...
\* (a key outside the five filters would be added as it is; the contents
\* of the model hold none)
UpdateFilters(criteria, extracted_filters) ==
    [key \in DOMAIN criteria |->
        IF key \notin DOMAIN extracted_filters THEN criteria[key]
        ELSE IF key = "category"
        THEN (IF extracted_filters[key] = "None" THEN criteria[key]
              ELSE extracted_filters[key])
        ELSE (IF extracted_filters[key] = None THEN criteria[key]
              ELSE extracted_filters[key])]

\* the margin fallback applied over a value already there
MarginFallbackOverrides(criteria, query) ==
    IF HasWord(query, "margin") /\ MarginMatches(query) # {}
    THEN [criteria EXCEPT !.min_margin = MarginVal(query)]
    ELSE criteria

\* the two regex fallbacks, each only for a filter that is still None
MarginFallback(criteria, query) ==
    IF criteria.min_margin = None /\ HasWord(query, "margin")
       /\ MarginMatches(query) # {}
    THEN [criteria EXCEPT !.min_margin = MarginVal(query)]
    ELSE criteria

PriceFallback(criteria, query) ==
    IF criteria.max_price = None
       /\ (HasWord(query, "under") \/ HasLessThan(query))
       /\ PriceMatches(query) # {}
    THEN [criteria EXCEPT !.max_price = PriceVal(query)]
    ELSE criteria

\* The completion request, the update and both regex fallbacks stand in one
\* try block; its except clause returns the five filters as None.  The
\* numbers are as returned (50 for 50%), not in the units of the pipeline.
parse_query_filters(query, completion) ==
    IF CompletionFailed(completion) THEN NoFilters
    ELSE PriceFallback(
            MarginFallback(UpdateFilters(NoFilters, completion.content), query),
            query)

\* ------------------------------------------------------ the parsing alone
QuerySamples ==
    { <<Word("bathroom"), Word("products"), Word("with"), Pct(50), Word("margin")>>,
      <<Word("margin"), Word("of"), Pct(40), Word("under"), Usd(30)>>,
      <<Word("kitchen"), Word("gadgets"), Word("less"), Word("than"), Num(25)>>,
      <<Word("high"), Word("margin"), Word("products")>>,
      <<Word("trending"), Word("products")>> }

InfoContents ==
    { [search_terms |-> <<Word("products")>>, category |-> "Kitchen"],
      [search_terms |-> <<Word("products")>>, category |-> "None"],
      [category |-> "Bathroom"] }

FilterContents ==
    { NoFilters,
      [NoFilters EXCEPT !.min_margin = 60],
      [NoFilters EXCEPT !.max_price = 20, !.category = "kitchen"],
      [NoFilters EXCEPT !.min_margin = 0, !.max_price = 0],
      [min_rating |-> 4, max_reviews |-> 500] }

Completions(contents) ==
    { [outcome |-> "raises", content |-> <<>>],
      [outcome |-> "malformed", content |-> <<>>] }
    \cup { [outcome |-> "ok", content |-> c] : c \in contents }

InitParse ==
    /\ pc = "parse_call"
    /\ pq_query \in QuerySamples
    /\ pq_completion \in [info : Completions(InfoContents),
                          filters : Completions(FilterContents)]
    /\ pq_calls = 0
    /\ pq_info = <<>>
    /\ pq_filters = <<>>
    /\ PipelineIdle /\ ScoreIdle /\ EnrichIdle
    /\ SearchIdle /\ DetailIdle /\ CompetitionIdle /\ LeadIdle

\* Step 1 of get_product_recommendations.  The try block makes the one
\* completion request of the call; the except clause makes none.
ExtractSearchInfo ==
    /\ pc = "parse_call"
    /\ pq_info' = _extract_search_info(pq_query, pq_completion.info)
    /\ pq_calls' = 1
    /\ pc' = "extracted"
    /\ UNCHANGED <<pq_query, pq_completion, pq_filters>>
    /\ UNCHANGED <<pipelineVars, scoreVars, enrichVars,
                   searchVars, detailVars, competitionVars, leadVars>>

\* Step 1.5: again one request, none in the except clause
ParseQueryFilters ==
    /\ pc = "extracted"
    /\ pq_filters' = parse_query_filters(pq_query, pq_completion.filters)
    /\ pq_calls' = 1
    /\ pc' = "parsed"
    /\ UNCHANGED <<pq_query, pq_completion, pq_info>>
    /\ UNCHANGED <<pipelineVars, scoreVars, enrichVars,
                   searchVars, detailVars, competitionVars, leadVars>>

NextParse == ExtractSearchInfo \/ ParseQueryFilters

SpecParse == InitParse /\ [][NextParse]_vars

\* ========================================================== get_product_details
\* float(price_info.get('value', 0)) raises TypeError on a null buybox price
DetailPriceRaises(response) == response.buybox_price = None

\* The product built from get_product_details' own response.  title, brand,
\* category and image_url are not represented.
BasicProduct(asin, response) ==
    [asin |-> asin,
     price |-> response.buybox_price,
     marketplace_sellers |-> MarketplaceSellers(response.offers, <<>>),
     seller_count |-> Len(MarketplaceSellers(response.offers, <<>>)),
     is_sponsored |-> response.sponsored,
     sponsored_count |-> response.sponsored_products]

\* The returned value as a sequence: <<>> is None, <<product>> the dictionary.
\* first answers the request of get_product_details, second the request of
\* the _get_rainforest_product_data it calls.  An empty enrichment leaves
\* the basic product as it is, without score.
get_product_details(asin, first, second, upW, upM, upS) ==
    IF first.raises \/ first.status_code # 200 THEN <<>>
    ELSE IF DetailPriceRaises(first) THEN <<>>
    ELSE LET enriched_data == _get_rainforest_product_data(second, upW, upM)
             product == BasicProduct(asin, first)
         IN  IF IsEmptyDict(enriched_data) THEN << product >>
             ELSE IF ScoreRaises(Merge(product, enriched_data)) THEN <<>>
             ELSE << Merge(Merge(product, enriched_data),
                           [score |-> _calculate_product_score(
                                          Merge(product, enriched_data), upS)]) >>

DetailFetches ==
    DetailResponses
    \cup { [DetailOk EXCEPT !.raises = TRUE],
           [DetailOk EXCEPT !.buybox_price = None],
           [DetailOk EXCEPT !.ratings_total = None],
           [DetailOk EXCEPT !.offers = <<>>, !.sponsored = TRUE] }

InitDetails ==
    /\ pc = "details_call"
    /\ pd_first \in DetailFetches
    /\ pd_second \in DetailFetches \ { [DetailOk EXCEPT !.buybox_price = None] }
    /\ pd_result = <<>>
    /\ PipelineIdle /\ ScoreIdle /\ EnrichIdle
    /\ SearchIdle /\ ParseIdle /\ CompetitionIdle /\ LeadIdle

GetProductDetails ==
    /\ pc = "details_call"
    /\ \E asin \in {"B001", "B002"}, upW \in BOOLEAN, upM \in BOOLEAN, upS \in BOOLEAN :
        pd_result' = get_product_details(asin, pd_first, pd_second, upW, upM, upS)
    /\ pc' = "detailed"
    /\ UNCHANGED <<pd_first, pd_second>>
    /\ UNCHANGED <<pipelineVars, scoreVars, enrichVars,
                   searchVars, parseVars, competitionVars, leadVars>>

NextDetails == GetProductDetails

SpecDetails == InitDetails /\ [][NextDetails]_vars

\* ================================================== the competition level alone
ReviewCounts == {None, 0, 1, 499, 500, 999, 1000}
SellerNames == {"Acme", "Bolt"}
OfferLists == UNION { [1..n -> SellerNames] : n \in 0..MaxOffers }
BuyboxWinners ==
    { [present |-> FALSE, fulfilled_by |-> "None"],
      [present |-> TRUE, fulfilled_by |-> "Amazon"],
      [present |-> TRUE, fulfilled_by |-> "Merchant"] }

InitCompetition ==
    /\ pc = "competition_call"
    /\ cl_product_data \in
          [review_count : ReviewCounts, offers : OfferLists,
           marketplace_sellers : {<<>>, <<"Acme">>, <<"Acme", "Bolt", "Core">>},
           buybox_winner : BuyboxWinners]
    /\ cl_result = <<>>
    /\ PipelineIdle /\ ScoreIdle /\ EnrichIdle
    /\ SearchIdle /\ ParseIdle /\ DetailIdle /\ LeadIdle

DetermineCompetition ==
    /\ pc = "competition_call"
    /\ cl_result' = determine_competition_level(cl_product_data)
    /\ pc' = "classified"
    /\ UNCHANGED cl_product_data
    /\ UNCHANGED <<pipelineVars, scoreVars, enrichVars,
                   searchVars, parseVars, detailVars, leadVars>>

NextCompetition == DetermineCompetition

SpecCompetition == InitCompetition /\ [][NextCompetition]_vars

\* ------------------------------------ the enrichment over the seller data
SellerResponses ==
    { [DetailOk EXCEPT !.offers = offers, !.ratings_total = reviews,
                       !.buybox_winner = bb.present,
                       !.buybox_fulfilled_by = bb.fulfilled_by,
                       !.buybox_price = IF bb.present THEN Cents(2000) ELSE 0] :
        offers \in OfferLists, reviews \in {None, 0, 700}, bb \in BuyboxWinners }

InitSellers ==
    /\ pc = "fetch"
    /\ en_response \in SellerResponses
    /\ en_data = <<>>
    /\ PipelineIdle /\ ScoreIdle
    /\ SearchIdle /\ ParseIdle /\ DetailIdle /\ CompetitionIdle /\ LeadIdle

SpecSellers == InitSellers /\ [][NextEnrich]_vars

\* ================================ _calculate_product_score on sparse products
\* a product that carries the field with one of the values, or not at all
Optional(key, values) ==
    {EmptyDict} \cup { [k \in {key} |-> v] : v \in values }

\* products with any of the five scored fields absent, and with an
\* ad_pressure_level as the store and the analysis write it ('Unknown')
SparseProducts ==
    { Merge(Merge(Merge(Merge(a, b), c), d), e) :
        a \in Optional("rating", {45}),
        b \in Optional("review_count", {2500}),
        c \in Optional("best_seller_rank", {30, UNRANKED}),
        d \in Optional("profit_margin", {4500}),
        e \in Optional("ad_pressure_level", {"Low", "Medium", "High", "Unknown"}) }

InitDefaults ==
    /\ pc = "score_sparse"
    /\ sc_product \in SparseProducts
    /\ sc_rank_b = 0 /\ sc_score_a = 0 /\ sc_score_b = 0
    /\ PipelineIdle /\ EnrichIdle
    /\ SearchIdle /\ ParseIdle /\ DetailIdle /\ CompetitionIdle /\ LeadIdle

ScoreSparse ==
    /\ pc = "score_sparse"
    /\ \E up \in BOOLEAN :
        sc_score_a' = _calculate_product_score(sc_product, up)
    /\ pc' = "scored_sparse"
    /\ UNCHANGED <<sc_product, sc_rank_b, sc_score_b>>
    /\ UNCHANGED <<pipelineVars, enrichVars,
                   searchVars, parseVars, detailVars, competitionVars, leadVars>>

NextDefaults == ScoreSparse

SpecDefaults == InitDefaults /\ [][NextDefaults]_vars

\* ============================================ _search_rainforest_products alone
\* A result page of n results: the first `lead` are sponsored, and so is every
\* result after the analysed ones when `tail` holds.
ResultPage(n, lead, tail) ==
    [i \in 1..n |->
        [asin |-> "B002",
         sponsored |-> (i <= lead \/ (tail /\ i > AnalyzedResults)),
         brand |-> [shape |-> "dict", name |-> "Acme"],
         price |-> [shape |-> "dict", value |-> Cents(1500)]]]

ResultPages ==
    { [raises |-> FALSE, status_code |-> 200,
       search_results |-> ResultPage(n, lead, tail)] :
        n \in 0..MaxSearchResults, lead \in 0..AnalyzedResults, tail \in BOOLEAN }

InitSecondary ==
    /\ pc = "rainforest_call"
    /\ se_args \in [search_terms : {"garlic press"}, category : {"None"},
                    limit : {15, MaxSearchResults}]
    /\ se_primary = <<>>
    /\ se_secondary \in ResultPages
    /\ se_calls = <<>>
    /\ se_result = <<>>
    /\ PipelineIdle /\ ScoreIdle /\ EnrichIdle
    /\ ParseIdle /\ DetailIdle /\ CompetitionIdle /\ LeadIdle

SearchRainforest ==
    /\ pc = "rainforest_call"
    /\ se_result' = _search_rainforest_products(se_args.search_terms,
                        se_args.category, se_args.limit, se_secondary)
    /\ pc' = "rainforest_searched"
    /\ UNCHANGED <<se_args, se_primary, se_secondary, se_calls>>
    /\ UNCHANGED <<pipelineVars, scoreVars, enrichVars,
                   parseVars, detailVars, competitionVars, leadVars>>

NextSecondary == SearchRainforest

SpecSecondary == InitSecondary /\ [][NextSecondary]_vars

\* ------------------------------------ the enrichment over the rank entries
\* ranks of a detail response: best sellers, deep ranks, past the sentinel
RankValues == {1, 30, 500, UNRANKED, 1200000}

RankLists == UNION { [1..n -> RankValues] : n \in 0..MaxRanks }

RankResponses == { [DetailOk EXCEPT !.bestsellers_rank = ranks] : ranks \in RankLists }

InitRanks ==
    /\ pc = "fetch"
    /\ en_response \in RankResponses
    /\ en_data = <<>>
    /\ PipelineIdle /\ ScoreIdle
    /\ SearchIdle /\ ParseIdle /\ DetailIdle /\ CompetitionIdle /\ LeadIdle

SpecRanks == InitRanks /\ [][NextEnrich]_vars

\* ===================================================== LeadAgent.process_query
\* products cached per turn in the model
MaxCached == 2

\* A query is the list of its whitespace-separated words.  A word is plain
\* text, a run of digits (word.isdigit()), "#" followed by digits, or an
\* identifier of ten characters holding a letter and a digit.
PlainWord(text) == [form |-> "plain", text |-> text, num |-> None]
Digits(n) == [form |-> "digits", text |-> "", num |-> n]
Hash(n) == [form |-> "hash", text |-> "#", num |-> n]
AsinWord(text) == [form |-> "asin", text |-> text, num |-> None]

number_map(text) ==
    IF text = "one" THEN 1 ELSE IF text = "two" THEN 2
    ELSE IF text = "three" THEN 3 ELSE IF text = "four" THEN 4 ELSE 5

\* the number the loop of _check_for_analysis_intent takes at word i, if any
IndexAt(words, i) ==
    IF words[i].text \in {"product", "item"} /\ i < Len(words)
       /\ words[i + 1].form = "digits"
    THEN words[i + 1].num
    ELSE IF words[i].form = "digits" /\ i > 1
            /\ words[i - 1].text \in {"product", "item"}
    THEN words[i].num
    ELSE IF words[i].form = "hash" THEN words[i].num
    ELSE IF words[i].text \in {"one", "two", "three", "four", "five"}
    THEN number_map(words[i].text)
    ELSE None

\* one of the four analysis phrases stands in the query
IsAnalysis(words) ==
    \E i \in 1..(Len(words) - 1) :
        \/ /\ words[i].text \in {"analyze", "evaluate", "assess"}
           /\ words[i + 1].text = "product"
        \/ words[i].text = "analyze" /\ words[i + 1].text = "item"

_check_for_analysis_intent(query) ==
    LET hits == {i \in DOMAIN query : IndexAt(query, i) # None}
        first == CHOOSE i \in hits : \A j \in hits : i <= j
    IN  [is_analysis |-> IsAnalysis(query),
         product_index |-> IF IsAnalysis(query) /\ hits # {}
                           THEN IndexAt(query, first) ELSE None]

\* the first identifier-shaped word, "" when there is none
_extract_asin(query) ==
    LET hits == {i \in DOMAIN query : query[i].form = "asin"}
        first == CHOOSE i \in hits : \A j \in hits : i <= j
    IN  IF hits = {} THEN "" ELSE query[first].text

\* "analyze" in query.lower()
AsksAnalysis(query) == \E i \in DOMAIN query : query[i].text = "analyze"

\* process_query answers from the cache before it asks for the intent
AnswersFromCache(query) ==
    /\ _check_for_analysis_intent(query).is_analysis
    /\ _check_for_analysis_intent(query).product_index # None

\* a product_info turn that never asks for a recommendation
InfoNeedsRecommendationNever(asin, details) == FALSE

\* the product_info branch falls through to get_product_recommendations when
\* the query names no identifier or the lookup found nothing
InfoNeedsRecommendation(asin, details) == asin = "" \/ details = <<>>

Response(kind, products) == [kind |-> kind, products |-> products]

LeadProducts ==
    { [asin |-> "B001", title |-> "Garlic Press", score |-> 8000],
      [asin |-> "B002", title |-> "Peeler", score |-> 6000],
      [asin |-> "B003", title |-> "Whisk", score |-> 3000] }

\* what get_product_recommendations(query, num_results) can return: at most
\* num_results products, best score first
Recommendations(count) ==
    LET n == IF count < MaxCached THEN count ELSE MaxCached
    IN  { products \in UNION { [1..k -> LeadProducts] : k \in 0..n } :
            \A i, j \in DOMAIN products :
                i < j => products[i].score > products[j].score }

\* the conversation_store.save_product calls of a loop over products
SaveCalls(products) ==
    [i \in DOMAIN products |-> Call("save_product", i)]

LeadQueries ==
    { <<PlainWord("analyze"), PlainWord("product"), Hash(1)>>,
      <<PlainWord("analyze"), PlainWord("product"), Hash(2)>>,
      <<PlainWord("analyze"), PlainWord("product"), Hash(3)>>,
      <<PlainWord("analyze"), PlainWord("product"), Digits(0)>>,
      <<PlainWord("evaluate"), PlainWord("product"), PlainWord("two")>>,
      <<PlainWord("analyze"), PlainWord("product")>>,
      <<PlainWord("find"), PlainWord("kitchen"), PlainWord("gadgets")>>,
      <<PlainWord("tell"), PlainWord("me"), PlainWord("about"), PlainWord("whisks")>>,
      <<PlainWord("details"), PlainWord("of"), AsinWord("B08CRLVK9F")>>,
      <<PlainWord("analyze"), AsinWord("B08CRLVK9F")>> }

Intents == {"product_recommendation", "product_info", "general_ecommerce",
            "other"}

InitLead ==
    /\ pc = "await_query"
    /\ LeadIdle
    /\ PipelineIdle /\ ScoreIdle /\ EnrichIdle
    /\ SearchIdle /\ ParseIdle /\ DetailIdle /\ CompetitionIdle

\* lines 43-48: an analysis request with a product number
AnalysisTurn ==
    /\ pc = "await_query"
    /\ \E query \in LeadQueries :
        LET product_index == _check_for_analysis_intent(query).product_index
        IN  /\ AnswersFromCache(query)
            /\ la_query' = query
            /\ la_response' =
                   IF product_index \in DOMAIN product_cache
                   THEN Response("analysis", <<product_cache[product_index]>>)
                   ELSE Response("no_information", <<>>)
    /\ la_before' = product_cache
    /\ la_intent' = "None" /\ la_details' = <<>> /\ la_calls' = <<>>
    /\ UNCHANGED <<pc, product_cache>>
    /\ UNCHANGED <<pipelineVars, scoreVars, enrichVars,
                   searchVars, parseVars, detailVars, competitionVars>>

\* lines 54-63: the pipeline's result replaces the cache; a pipeline that
\* raises leaves process_query before the cache is assigned
RecommendationTurn ==
    /\ pc = "await_query"
    /\ \E query \in LeadQueries :
        /\ ~AnswersFromCache(query)
        /\ la_query' = query
    /\ la_intent' = "product_recommendation"
    /\ la_before' = product_cache
    /\ la_details' = <<>>
    /\ \/ \E products \in Recommendations(5) :
            /\ product_cache' = products
            /\ la_calls' = <<Call("get_product_recommendations", 5)>>
                               \o SaveCalls(products)
            /\ la_response' = Response("recommendations", products)
       \/ /\ la_calls' = <<Call("get_product_recommendations", 5)>>
          /\ la_response' = Response("raised", <<>>)
          /\ UNCHANGED product_cache
    /\ UNCHANGED pc
    /\ UNCHANGED <<pipelineVars, scoreVars, enrichVars,
                   searchVars, parseVars, detailVars, competitionVars>>

\* lines 64-87: a lookup by identifier, else one recommendation
ProductInfoTurn ==
    /\ pc = "await_query"
    /\ \E query \in LeadQueries :
        LET asin == _extract_asin(query)
        IN  /\ ~AnswersFromCache(query)
            /\ la_query' = query
            /\ \E details \in {<<>>} \cup {<<product>> : product \in LeadProducts} :
                /\ asin = "" => details = <<>>
                /\ la_details' = details
                /\ IF InfoNeedsRecommendation(asin, details)
                   THEN \/ \E products \in Recommendations(1) :
                            /\ la_calls' =
                                   (IF asin = "" THEN <<>>
                                    ELSE <<Call("get_product_details", 0)>>)
                                   \o <<Call("get_product_recommendations", 1)>>
                                   \o SaveCalls(products)
                            /\ la_response' =
                                   IF products # <<>>
                                   THEN Response("product_info", <<products[1]>>)
                                   ELSE Response("not_found", <<>>)
                        \/ /\ la_calls' =
                                   (IF asin = "" THEN <<>>
                                    ELSE <<Call("get_product_details", 0)>>)
                                   \o <<Call("get_product_recommendations", 1)>>
                           /\ la_response' = Response("raised", <<>>)
                   ELSE /\ la_calls' = <<Call("get_product_details", 0),
                                         Call("save_product", 1)>>
                        /\ la_response' =
                               IF AsksAnalysis(query)
                               THEN Response("analysis", details)
                               ELSE Response("product_info", details)
    /\ la_intent' = "product_info"
    /\ la_before' = product_cache
    /\ UNCHANGED <<pc, product_cache>>
    /\ UNCHANGED <<pipelineVars, scoreVars, enrichVars,
                   searchVars, parseVars, detailVars, competitionVars>>

\* lines 88-90: every other intent is answered by the completion service
GeneralTurn ==
    /\ pc = "await_query"
    /\ \E query \in LeadQueries :
        /\ ~AnswersFromCache(query)
        /\ la_query' = query
    /\ \E intent \in Intents \ {"product_recommendation", "product_info"} :
        la_intent' = intent
    /\ la_before' = product_cache
    /\ la_details' = <<>> /\ la_calls' = <<>>
    /\ la_response' = Response("chat", <<>>)
    /\ UNCHANGED <<pc, product_cache>>
    /\ UNCHANGED <<pipelineVars, scoreVars, enrichVars,
                   searchVars, parseVars, detailVars, competitionVars>>

NextLead == AnalysisTurn \/ RecommendationTurn \/ ProductInfoTurn \/ GeneralTurn

SpecLead == InitLead /\ [][NextLead]_vars

\* ================================================================ claims
\* what a claim calls "satisfies every non-null constraint"
Satisfies(product, criteria) ==
    /\ (criteria.min_margin = None \/ product.profit_margin >= criteria.min_margin)
    /\ (criteria.max_price = None \/ product.price <= criteria.max_price)
    /\ (criteria.min_rating = None \/ product.rating >= criteria.min_rating)
    /\ (criteria.max_reviews = None \/ product.review_count <= criteria.max_reviews)

NoneSatisfies(products, criteria) ==
    \A i \in DOMAIN products : ~Satisfies(products[i], criteria)

Descending(products) ==
    \A i, j \in DOMAIN products :
        i < j => ScoreOf(products[i]) >= ScoreOf(products[j])

Count(seq, x) == Cardinality({i \in DOMAIN seq : seq[i] = x})

Above(seq, s) == Cardinality({i \in DOMAIN seq : ScoreOf(seq[i]) > s})

\* top holds elements of all, and no element of all left out of top scores
\* higher than an element of top
IsTopOf(top, all) ==
    /\ \A i \in DOMAIN top : Count(top, top[i]) <= Count(all, top[i])
    /\ \A i \in DOMAIN all :
        Above(top, ScoreOf(all[i])) = Min(Len(top), Above(all, ScoreOf(all[i])))

\* C1: when no candidate of a non-empty list satisfies the criteria,
\* _apply_filters returns exactly min(3, N) candidates, the highest-scored of
\* the list it was given, in descending order of score (so never none).
C1_FallbackTopThree ==
    (pc = "sort" /\ call_products # <<>> /\ NoneSatisfies(call_products, filters))
    => /\ Len(filtered_products) = Min(3, Len(call_products))
       /\ filtered_products # <<>>
       /\ Descending(filtered_products)
       /\ IsTopOf(filtered_products, call_products)

C1_Witness ==
    /\ pc = "sort"
    /\ Len(call_products) = 4
    /\ NoneSatisfies(call_products, filters)
    /\ filters.max_price # None
    /\ Len(filtered_products) = 3
    /\ \E i, j \in DOMAIN call_products :
        i < j /\ ScoreOf(call_products[i]) < ScoreOf(call_products[j])

\* C2: a call with num_results >= 1 in which at least one candidate was
\* enriched successfully never returns an empty list.
C2_NeverEmptyWhenDataExisted ==
    (pc = "done" /\ num_results >= 1 /\ call_products # <<>>) => result # <<>>

C2_Witness ==
    /\ pc = "done"
    /\ num_results >= 1
    /\ call_products # <<>>
    /\ NoneSatisfies(call_products, filters)
    /\ result # <<>>

\* C3: when at least one candidate satisfies every non-null constraint,
\* _apply_filters returns exactly the satisfying candidates, in input order.
C3_ExactlyTheSatisfying ==
    (pc = "sort" /\ ~NoneSatisfies(call_products, filters))
    => filtered_products =
         SelectSeq(call_products, LAMBDA product : Satisfies(product, filters))

C3_Witness ==
    /\ pc = "sort"
    /\ Len(call_products) = 4
    /\ Len(filtered_products) = 2
    /\ filters.max_price # None
    /\ filters.min_margin # None
    /\ filters.min_rating = None
    /\ ~Satisfies(call_products[1], filters)
    /\ Satisfies(call_products[2], filters)

C5_NoExceptionReachesCaller == pc # "raised"

\* C6: the score of every valid enriched candidate lies in 0..100.
C6_ScoreBounds ==
    pc = "scored"
    => /\ 0 <= sc_score_a /\ sc_score_a <= 10000
       /\ 0 <= sc_score_b /\ sc_score_b <= 10000

C6_Witness ==
    /\ pc = "scored"
    /\ sc_product.rating = 50
    /\ sc_product.review_count >= 5000
    /\ sc_product.best_seller_rank = 1
    /\ sc_product.profit_margin = 10000
    /\ sc_product.ad_pressure_level = "Low"
    /\ sc_score_a = 9980

\* the reference weighted sum of C7, in twentieths of a hundredth of a point:
\* 100 x (0.25 rating/5 + 0.15 min(reviews/5000, 1)
\*        + 0.20 (1 - min(rank/100, 1)) + 0.25 min(margin/100, 1) + 0.15 a)
ReferenceSum(product) ==
    1000 * product.rating
    + 6 * Min(product.review_count, 5000)
    + 400 * (100 - Min(product.best_seller_rank, 100))
    + 5 * Min(product.profit_margin, 10000)
    + (IF product.ad_pressure_level = "Low" THEN 30000
       ELSE IF product.ad_pressure_level = "Medium" THEN 15000
       ELSE 3000)

\* s is the reference sum rounded to 2 decimals
IsRounded(s, product) ==
    /\ 20 * s - ReferenceSum(product) <= 10
    /\ ReferenceSum(product) - 20 * s <= 10

\* C7: the score equals the reference weighted sum rounded to 2 decimals, and
\* the five weights sum to exactly 1.0.
C7_ReferenceWeightedSum ==
    /\ weights.rating + weights.review_count + weights.rank
         + weights.profit_margin + weights.ad_pressure = 100
    /\ pc = "scored"
       => /\ IsRounded(sc_score_a, sc_product)
          /\ IsRounded(sc_score_b, ProductB)

C7_Witness ==
    /\ pc = "scored"
    /\ sc_product = [rating |-> 45, review_count |-> 6000, best_seller_rank |-> 30,
                     profit_margin |-> 6000, ad_pressure_level |-> "High"]
    /\ sc_score_a = 6800

\* C8: of two candidates that differ in best_seller_rank alone, the one of the
\* lower (better) rank scores at least as high.
C8_RankMonotone ==
    (pc = "scored" /\ sc_product.best_seller_rank <= sc_rank_b)
    => sc_score_a >= sc_score_b

C8_Witness ==
    /\ pc = "scored"
    /\ sc_product.best_seller_rank = 50
    /\ sc_rank_b = 500
    /\ sc_score_a > sc_score_b

\* C9: a successful enrichment of retail price > 0 has wholesale_price =
\* round(0.55 x retail_price, 2) and 0 <= profit_margin <= 100; when the
\* retail price or the wholesale price is not positive, profit_margin is 0.
C9_MarginInvariant ==
    (pc = "fetched" /\ ~IsEmptyDict(en_data))
    => LET retail_price == en_response.buybox_price
           wholesale_price == en_data.wholesale_price
       IN  /\ retail_price > 0
              => /\ 100 * wholesale_price - 55 * retail_price <= 50 * Cents(1)
                 /\ 55 * retail_price - 100 * wholesale_price <= 50 * Cents(1)
                 /\ 0 <= en_data.profit_margin
                 /\ en_data.profit_margin <= 10000
           /\ (retail_price <= 0 \/ wholesale_price <= 0)
              => en_data.profit_margin = 0

\* C10: every returned product whose listed price is > 0 has
\* wholesale_price <= price.
C10_WholesaleNotAboveListed ==
    pc = "done"
    => \A i \in DOMAIN result :
         result[i].price > 0 => result[i].wholesale_price <= result[i].price

\* the catalog call ended without an exception and with status 200
PrimaryAnswered == ~se_primary.raises /\ se_primary.status_code = 200

\* the search request of the fallback was answered and every price was read
SecondaryAnswered ==
    /\ ~se_secondary.raises /\ se_secondary.status_code = 200
    /\ \A i \in DOMAIN se_secondary.search_results :
           ~PriceRaises(se_secondary.search_results[i].price)

\* C11: when the catalog call raises, before or while the items are
\* processed, or answers with a status other than 200, exactly one call of
\* _search_rainforest_products is made, with the search_terms, category and
\* limit _search_amazon_products was called with, and its result is returned.
C11_FallbackSameArguments ==
    (pc = "searched"
     /\ (se_primary.raises \/ se_primary.status_code # 200
         \/ ItemsRaise(se_primary.items))) =>
        /\ se_calls = << se_args >>
        /\ se_result = _search_rainforest_products(se_args.search_terms,
                           se_args.category, se_args.limit, se_secondary)

\* C16 as stated: a 200 catalog response with zero items makes the search
\* fall back to _search_rainforest_products and return its result.
C16_EmptyPrimaryFallsBack ==
    (pc = "searched" /\ PrimaryAnswered /\ se_primary.items = <<>>) =>
        /\ se_calls # <<>>
        /\ se_result = _search_rainforest_products(se_args.search_terms,
                           se_args.category, se_args.limit, se_secondary)

\* C16: a 200 catalog response with zero items is returned as the empty
\* list and _search_rainforest_products is not called.
C16_EmptyPrimaryReturnsEmpty ==
    (pc = "searched" /\ PrimaryAnswered /\ se_primary.items = <<>>) =>
        se_calls = <<>> /\ se_result = <<>>

\* an empty 200 catalog response while the fallback would have had products
C16_Witness ==
    /\ pc = "searched" /\ PrimaryAnswered /\ se_primary.items = <<>>
    /\ SecondaryAnswered /\ se_secondary.search_results # <<>>
    /\ se_calls = <<>> /\ se_result = <<>>

\* C17: in a 200 catalog response every item becomes a candidate, in order,
\* and an item whose ListPrice value is null gets price 0; the other items
\* are returned with it.
C17_MalformedFieldOnlyDefaulted ==
    (pc = "searched" /\ PrimaryAnswered) =>
        /\ Len(se_result) = Len(se_primary.items)
        /\ \A i \in DOMAIN se_result :
            /\ se_result[i].asin = se_primary.items[i].asin
            /\ (se_primary.items[i].ListPrice = None => se_result[i].price = 0)

\* C18: a candidate of _search_rainforest_products carries the brand of its
\* search result whether it came as a string or as an object with a name,
\* and its price whether it came as a scalar or as an object with a value.
C18_BothShapesNormalized ==
    (pc = "searched" /\ se_calls # <<>> /\ SecondaryAnswered) =>
        \A i \in DOMAIN se_result :
            LET item == se_secondary.search_results[i]
            IN  /\ (item.brand.shape \in {"dict", "str"} =>
                        se_result[i].brand = item.brand.name)
                /\ (item.price.shape \in {"dict", "scalar"}
                    /\ item.price.value \notin {None, Missing} =>
                        se_result[i].price = item.price.value)

\* the order of the ad pressure levels
AdLevelRank(level) ==
    CASE level = "Low" -> 1 [] level = "Medium" -> 2 [] level = "High" -> 3

\* C15: an enriched product's ad_pressure_level is never below the level its
\* search candidate was tagged with.
C15_AdPressureNotBelowSearch ==
    \A i \in DOMAIN enriched_products : \A j \in DOMAIN amazon_products :
        (amazon_products[j].asin = enriched_products[i].asin
         /\ "ad_pressure_level" \in DOMAIN amazon_products[j]) =>
            AdLevelRank(enriched_products[i].ad_pressure_level)
                >= AdLevelRank(amazon_products[j].ad_pressure_level)

\* C12: when the completion request fails or its content is not JSON,
\* _extract_search_info returns the raw query as search_terms with category
\* None, parse_query_filters returns its five filters as None, no exception
\* leaves either, and neither makes a second request.
C12_ParseFailureFallbacks ==
    /\ pc # "raised"
    /\ (pc \in {"extracted", "parsed"} /\ CompletionFailed(pq_completion.info)) =>
           pq_info = [search_terms |-> pq_query, category |-> "None"]
    /\ (pc = "parsed" /\ CompletionFailed(pq_completion.filters)) =>
           pq_filters = NoFilters
    /\ pc \in {"extracted", "parsed"} => pq_calls = 1

\* both requests failed on a query that names a margin
C12_Witness ==
    /\ pc = "parsed"
    /\ pq_completion.info.outcome = "raises"
    /\ pq_completion.filters.outcome = "malformed"
    /\ MarginMatches(pq_query) # {}
    /\ pq_info.search_terms = pq_query
    /\ pq_filters = NoFilters

\* C13: when the completion request fails, a query holding "<N>% margin" or
\* "margin of <N>%" still gets min_margin = N from the regex fallback.
C13_RegexFallbackWithoutService ==
    (pc = "parsed" /\ CompletionFailed(pq_completion.filters)
     /\ MarginMatches(pq_query) # {}) =>
        pq_filters.min_margin = MarginVal(pq_query)

\* the fields only _get_rainforest_product_data and the scoring add
EnrichedAndScored(product) ==
    {"rating", "review_count", "best_seller_rank", "wholesale_price",
     "profit_margin", "competition_level", "ad_pressure_level", "score"}
        \subseteq DOMAIN product

\* C14: get_product_details returns None or a product that carries the
\* enrichment fields and a score, whatever the two detail requests did.
C14_DetailsNullOrEnriched ==
    (pc = "detailed" /\ pd_result # <<>>) => EnrichedAndScored(pd_result[1])

\* the seller-count bands
SellerCountLevel(seller_count) ==
    IF seller_count <= 2 THEN "Low"
    ELSE IF seller_count <= 5 THEN "Medium" ELSE "High"

\* C19: an enriched product with seller_count >= 1 has the competition_level
\* of that seller_count: Low up to 2, Medium for 3..5, High above 5.
C19_CompetitionFollowsSellerCount ==
    (pc = "fetched" /\ ~IsEmptyDict(en_data) /\ en_data.seller_count >= 1) =>
        en_data.competition_level = SellerCountLevel(en_data.seller_count)

ReviewCountLevel(review_count) ==
    IF review_count = 0 THEN "Unknown"
    ELSE IF review_count < 500 THEN "Low"
    ELSE IF review_count < 1000 THEN "Medium" ELSE "High"

CompetitionLevels == {"Low", "Medium", "High", "Unknown"}

\* C20 as stated: without offers and without seller names the level is that
\* of the review count alone, and every call returns one (level, rationale)
\* pair with the level in {Low, Medium, High, Unknown}.
C20_NoSellerListByReviews ==
    pc = "classified" =>
        /\ Len(cl_result) = 2 /\ cl_result[1] \in CompetitionLevels
        /\ (cl_product_data.offers = <<>>
            /\ cl_product_data.marketplace_sellers = <<>>
            /\ cl_product_data.review_count # None) =>
               cl_result[1] = ReviewCountLevel(cl_product_data.review_count)

\* C20: without offers, without seller names and without a buybox winner
\* the level is that of the review count alone (0 Unknown, 1..499 Low,
\* 500..999 Medium, 1000 and more High); with a buybox winner and no other
\* seller data it is Low; every call returns one (level, rationale) pair
\* with the level in {Low, Medium, High, Unknown}.
C20_NoSellerDataByReviews ==
    pc = "classified" =>
        /\ Len(cl_result) = 2 /\ cl_result[1] \in CompetitionLevels
        /\ (cl_product_data.offers = <<>>
            /\ cl_product_data.marketplace_sellers = <<>>
            /\ cl_product_data.review_count # None) =>
               IF cl_product_data.buybox_winner.present
               THEN cl_result[1] = "Low"
               ELSE cl_result[1] = ReviewCountLevel(cl_product_data.review_count)

\* no seller data at all and exactly 500 reviews
C20_Witness ==
    /\ pc = "classified"
    /\ cl_product_data.offers = <<>>
    /\ cl_product_data.marketplace_sellers = <<>>
    /\ ~cl_product_data.buybox_winner.present
    /\ cl_product_data.review_count = 500
    /\ cl_result[1] = "Medium"

\* the product with every absent scored field filled in as the claim says,
\* and an ad_pressure_level outside Low, Medium, High read as Medium
WithDefaults(product) ==
    [rating |-> Get(product, "rating", 0),
     review_count |-> Get(product, "review_count", 0),
     best_seller_rank |-> Get(product, "best_seller_rank", 1000),
     profit_margin |-> Get(product, "profit_margin", 0),
     ad_pressure_level |->
        IF Get(product, "ad_pressure_level", "Medium") \in {"Low", "Medium", "High"}
        THEN Get(product, "ad_pressure_level", "Medium") ELSE "Medium"]

\* C21: the score of a product is the score of the same product with a
\* missing rating, review_count or profit_margin taken as 0, a missing
\* best_seller_rank as 1000 and an ad_pressure_level that is absent or not
\* one of Low, Medium, High taken as Medium.
C21_DefaultsWhenMissing ==
    pc = "scored_sparse" =>
        \E up \in BOOLEAN :
            sc_score_a = _calculate_product_score(WithDefaults(sc_product), up)

\* the sponsored results among the first min(20, n)
AnalyzedCount(results) == Min(20, Len(results))
SponsoredAmongAnalyzed(results) ==
    Cardinality({i \in 1..AnalyzedCount(results) : results[i].sponsored})

\* Low below 0.2, Medium from 0.2 to 0.5, High above, for count / total
RatioLevel(count, total) ==
    IF 10 * count < 2 * total THEN "Low"
    ELSE IF 10 * count <= 5 * total THEN "Medium" ELSE "High"

\* C22: every candidate _search_rainforest_products returns carries the
\* ratio sponsored_count / analyzed_count of the first min(20, n) results
\* (0 for none) and its level: Low below 0.2, Medium from 0.2 to 0.5, High
\* above 0.5; the first `limit` results are returned.
C22_SponsoredRatioAndLevel ==
    pc = "rainforest_searched" =>
        LET results == se_secondary.search_results
            count == SponsoredAmongAnalyzed(results)
            total == AnalyzedCount(results)
        IN  /\ Len(se_result) = Min(se_args.limit, Len(results))
            /\ \A i \in DOMAIN se_result :
                /\ se_result[i].sponsored_ratio =
                       (IF total > 0 THEN <<count, total>> ELSE <<0, 1>>)
                /\ se_result[i].ad_pressure_level =
                       (IF total > 0 THEN RatioLevel(count, total) ELSE "Low")
                /\ se_result[i].is_sponsored = results[i].sponsored

\* 6 of the 20 analysed results sponsored, sponsored results after them, and
\* a candidate beyond the twentieth returned with 6/20 and Medium
C22_Witness ==
    /\ pc = "rainforest_searched"
    /\ Len(se_result) > 20
    /\ se_secondary.search_results[Len(se_result)].sponsored
    /\ se_result[Len(se_result)].sponsored_ratio = <<6, 20>>
    /\ se_result[Len(se_result)].ad_pressure_level = "Medium"

\* the least element of a non-empty sequence of numbers
MinOf(seq) == CHOOSE x \in Range(seq) : \A y \in Range(seq) : x <= y

\* C23: with one or more (category, rank) pairs in the detail record,
\* best_seller_rank is the least of their ranks and category_ranks holds the
\* pairs in the order received; with none, best_seller_rank is 999999 and
\* category_ranks is empty.
C23_BestRankIsMinimum ==
    (pc = "fetched" /\ ~IsEmptyDict(en_data)) =>
        /\ en_data.category_ranks = en_response.bestsellers_rank
        /\ en_data.best_seller_rank =
              (IF en_response.bestsellers_rank = <<>> THEN 999999
               ELSE MinOf(en_response.bestsellers_rank))

\* the positions of the log that hold the call of op for candidate i
CallsOf(op, i) == { k \in DOMAIN log : log[k] = Call(op, i) }

\* the positions of the log that hold a call of op
CallsTo(op) == { k \in DOMAIN log : log[k].op = op }

EnrichmentFields ==
    {"rating", "review_count", "best_seller_rank", "wholesale_price",
     "profit_margin", "competition_level", "ad_pressure_level"}

\* the loop over the candidates has ended
LoopDone == pc \in {"filter", "sort", "done"} /\ amazon_products # <<>>

\* C24: a candidate is fetched at most once and only with a non-empty asin,
\* exactly once when the loop has ended; a product is appended only after a
\* non-empty enrichment; every returned product has a non-empty asin, the
\* enrichment fields and a score.
C24_FailedEnrichmentSkipped ==
    /\ \A i \in DOMAIN amazon_products :
        /\ Cardinality(CallsOf("_get_rainforest_product_data", i)) <= 1
        /\ amazon_products[i].asin = "" =>
               CallsOf("_get_rainforest_product_data", i) = {}
        /\ (LoopDone /\ amazon_products[i].asin # "") =>
               Cardinality(CallsOf("_get_rainforest_product_data", i)) = 1
    /\ pc # "raised" =>
           Len(enriched_products) = Cardinality(CallsTo("_calculate_product_score"))
    /\ \A k \in DOMAIN enriched_products :
           EnrichmentFields \subseteq DOMAIN enriched_products[k]
    /\ \A k \in DOMAIN result :
        /\ result[k].asin # ""
        /\ EnrichmentFields \cup {"score"} \subseteq DOMAIN result[k]

\* a returned list after a search with a candidate without asin and a
\* candidate whose fetch gave the empty enrichment
C24_Witness ==
    /\ pc = "done" /\ result # <<>>
    /\ \E i \in DOMAIN amazon_products : amazon_products[i].asin = ""
    /\ \E i \in DOMAIN amazon_products :
        /\ CallsOf("_get_rainforest_product_data", i) # {}
        /\ CallsOf("_calculate_product_score", i) = {}

\* C25: _extract_search_info and parse_query_filters are called before
\* _search_amazon_products; candidate N is enriched before it is scored;
\* _apply_filters is called after the enrichment and scoring of every
\* candidate, and no enrichment or scoring follows it.
C25_StagesInOrder ==
    /\ \A k \in CallsTo("_search_amazon_products") :
        /\ \E j \in CallsTo("_extract_search_info") : j < k
        /\ \E j \in CallsTo("parse_query_filters") : j < k
    /\ \A k \in CallsTo("_calculate_product_score") :
        \E j \in CallsOf("_get_rainforest_product_data", log[k].i) : j < k
    /\ \A k \in CallsTo("_apply_filters") :
        /\ \A j \in CallsTo("_get_rainforest_product_data")
                    \cup CallsTo("_calculate_product_score") : j < k
        /\ amazon_products # <<>> =>
            \A i \in DOMAIN amazon_products :
                amazon_products[i].asin # "" =>
                    CallsOf("_get_rainforest_product_data", i) # {}

\* two candidates enriched and scored, then the filters applied
C25_Witness ==
    /\ pc = "done"
    /\ Cardinality(CallsTo("_calculate_product_score")) >= 2
    /\ CallsTo("_apply_filters") # {}

\* C26: when the search returns no candidates, the call ends at once with
\* the empty list: no detail fetch, no scoring, no filtering.
C26_EmptySearchShortCircuits ==
    (amazon_products = <<>> /\ pc \notin {"start", "search"}) =>
        /\ pc = "done"
        /\ result = <<>>
        /\ CallsTo("_get_rainforest_product_data") = {}
        /\ CallsTo("_calculate_product_score") = {}
        /\ CallsTo("_apply_filters") = {}

C26_Witness ==
    /\ pc = "done" /\ amazon_products = <<>> /\ result = <<>>
    /\ log = <<Call("_extract_search_info", 0), Call("parse_query_filters", 0),
               Call("_search_amazon_products", 0)>>

\* C30: every enriched product has the asin, title, price, category and
\* image_url of a search candidate, exactly as the search returned them.
C30_MergeKeepsCandidateFields ==
    \A k \in DOMAIN enriched_products :
        \E i \in DOMAIN amazon_products :
            /\ enriched_products[k].asin = amazon_products[i].asin
            /\ enriched_products[k].title = amazon_products[i].title
            /\ enriched_products[k].price = amazon_products[i].price
            /\ enriched_products[k].category = amazon_products[i].category
            /\ enriched_products[k].image_url = amazon_products[i].image_url

\* a returned product whose brand came from the detail record and whose
\* listed price is the search's, not the detail record's
C30_Witness ==
    /\ pc = "done" /\ result # <<>>
    /\ result[1].asin = "B001" /\ result[1].title = "Garlic Press"
    /\ result[1].brand = "Acme" /\ result[1].price = Cents(2000)
    /\ result[1].wholesale_price # Cents(1100)

\* the completion request answered with an object that holds a value for key
Supplied(key) ==
    /\ pq_completion.filters.outcome = "ok"
    /\ key \in DOMAIN pq_completion.filters.content
    /\ pq_completion.filters.content[key] # None

\* C27: a min_margin or max_price the completion service supplied is the
\* one parse_query_filters returns, whatever margin or price phrase the
\* query holds.
C27_RegexDoesNotOverride ==
    pc = "parsed" =>
        /\ Supplied("min_margin") =>
               pq_filters.min_margin = pq_completion.filters.content.min_margin
        /\ Supplied("max_price") =>
               pq_filters.max_price = pq_completion.filters.content.max_price

\* a supplied margin of 60 kept over the query's "50% margin"
C27_Witness ==
    /\ pc = "parsed" /\ Supplied("min_margin")
    /\ MarginMatches(pq_query) # {} /\ MarginVal(pq_query) = 50
    /\ pq_filters.min_margin = 60

\* C28: _apply_filters leaves the list passed to it as it was, the same
\* elements in the same order, on the normal path and on the fallback path.
C28_ApplyFiltersLeavesInput ==
    (pc \in {"sort", "done"} /\ call_products # <<>>) =>
        enriched_products = call_products

\* the turn asked the product agent for recommendations, which searches
Searched ==
    \E i \in DOMAIN la_calls : la_calls[i].op = "get_product_recommendations"

\* the last turn was a product_recommendation turn that got its products
Recommended ==
    la_intent = "product_recommendation" /\ la_response.kind = "recommendations"

\* the cache is empty before the first turn, holds the products of a
\* product_recommendation turn in ranked order after it, and is what it was
\* after any other turn
CacheHoldsLatest ==
    /\ la_query = <<>> => product_cache = <<>>
    /\ Recommended =>
           /\ product_cache = la_response.products
           /\ \A i, j \in DOMAIN product_cache :
                  i < j => product_cache[i].score >= product_cache[j].score
    /\ (la_query # <<>> /\ ~Recommended) => product_cache = la_before

\* a numbered analysis request is answered from the cache entry of its number
AnalysisAnswered ==
    (la_query # <<>> /\ AnswersFromCache(la_query)) =>
        LET k == _check_for_analysis_intent(la_query).product_index
        IN  /\ la_intent = "None"
            /\ la_response =
                   IF k >= 1 /\ k <= Len(la_before)
                   THEN Response("analysis", <<la_before[k]>>)
                   ELSE Response("no_information", <<>>)

\* C29: the cache holds the products of the most recent
\* product_recommendation turn keyed 1..n in ranked order, a numbered
\* analysis request is answered from it, and analysis, product_info and
\* general turns leave it unchanged and trigger no search.
C29_OnlyRecommendationsSearch ==
    /\ CacheHoldsLatest
    /\ AnalysisAnswered
    /\ (la_query # <<>> /\ la_intent # "product_recommendation") => ~Searched

\* C29 amended: as C29, but a product_info turn searches, for one product,
\* exactly when the query names no identifier or the lookup found nothing.
C29_InfoTurnMaySearch ==
    /\ CacheHoldsLatest
    /\ AnalysisAnswered
    /\ (la_query # <<>> /\ la_intent \notin {"product_recommendation", "product_info"})
           => ~Searched
    /\ la_intent = "product_info" =>
           /\ Searched <=> (_extract_asin(la_query) = "" \/ la_details = <<>>)
           /\ \A i \in DOMAIN la_calls :
                  la_calls[i].op = "get_product_recommendations"
                      => la_calls[i].i = 1

\* a product_info turn without identifier searched and left a cache of two
C29_Witness ==
    /\ la_intent = "product_info" /\ _extract_asin(la_query) = ""
    /\ Searched
    /\ Len(product_cache) = 2 /\ product_cache = la_before

\* "analyze product #2" answered with the second cached product
C29_AnalysisWitness ==
    /\ AnswersFromCache(la_query)
    /\ _check_for_analysis_intent(la_query).product_index = 2
    /\ Len(product_cache) = 2
    /\ la_response = Response("analysis", <<product_cache[2]>>)

====
